---- MODULE Spec2Model ----
(***************************************************************************)
(* Model of src/src/App.jsx: the App component of poga/patterns.           *)
(*                                                                         *)
(* Encoding of JavaScript values.                                          *)
(*   - A JS number is a fraction <<num, den>> in lowest terms with         *)
(*     den > 0; NaN is <<0, 0>>.                                           *)
(*   - A JS string is a sequence of one-character strings.                 *)
(*   - A value of a params field is a record [k, n, s]: k = "num" with n   *)
(*     the number in hundredths (0.02 is 2, 10 is 1000), or k = "str" with *)
(*     s the characters.  The controls emit strings (e.target.value), the  *)
(*     initial object holds numbers.                                       *)
(***************************************************************************)
EXTENDS Integers, Sequences, FiniteSets

VARIABLES
    params,             \* useState value (line 20)
    committed,          \* params of the last committed React render
    needsRender,        \* setParams was called, re-render not yet committed
    effectPending,      \* a committed render's passive effect has not run yet
    hasCleanup,         \* a previous effect run returned its cleanup function
    crashed,            \* the effect threw: React unmounted the tree
    animationFrameRef,  \* animationFrameRef.current (0 is null)
    frames,             \* the browser's pending requestAnimationFrame callbacks
    nextFrameId,        \* the id requestAnimationFrame returns next
    gradientCache,      \* gradientCacheRef.current: set of [key, val]
    drawLog,            \* canvas operations of the last render pass, in order
    stops,              \* gradient lookups of the last render pass, in order
    hits,               \* cached returns of getGradientColor in the last pass
    misses,             \* fresh computations of getGradientColor in the last pass
    quantum,            \* events issued since the last display-frame tick
    ran,                \* ids of the callbacks run by the last tick that followed an event
    mcIn,               \* arguments of the last direct mapToColor call
    mcOut,              \* its result
    raster,             \* pixel buffer: before / after putImageData / after drawImage
    noiseIn             \* noiseScale of the last noise pass over raster

vars == <<params, committed, needsRender, effectPending, hasCleanup, crashed,
          animationFrameRef, frames, nextFrameId, gradientCache, drawLog, stops,
          hits, misses, quantum, ran, mcIn, mcOut, raster, noiseIn>>

appVars == <<params, committed, needsRender, effectPending, hasCleanup, crashed,
             animationFrameRef, frames, nextFrameId, gradientCache, drawLog, stops,
             hits, misses, quantum, ran>>

----------------------------------------------------------------------------
(* Numbers *)

\* JavaScript evaluates an operand or an argument once, before it is used:
\* The({e(v) : v \in {a}}) is e with v the value of a
The(S) == CHOOSE v \in S : TRUE

RECURSIVE Gcd(_, _)
Gcd(a, b) == IF b = 0 THEN a ELSE The({Gcd(b, r) : r \in {a % b}})

Abs(a) == IF a < 0 THEN -a ELSE a

NaN == <<0, 0>>

IsNaN(x) == x[2] = 0

\* num/den in lowest terms; 0/0 is NaN (the only division by zero the code reaches)
Frac(num, den) ==
    The({IF d = 0 THEN NaN
         ELSE IF d = 1 THEN <<n, 1>>
         ELSE The({IF d < 0 THEN <<(-n) \div g, (-d) \div g>> ELSE <<n \div g, d \div g>> :
                   g \in {Gcd(Abs(n), Abs(d))}}) :
         n \in {num}, d \in {den}})

Whole(n) == <<n, 1>>

Add(x, y) ==
    The({IF IsNaN(a) \/ IsNaN(b) THEN NaN ELSE Frac(a[1] * b[2] + b[1] * a[2], a[2] * b[2]) :
         a \in {x}, b \in {y}})

Sub(x, y) ==
    The({IF IsNaN(a) \/ IsNaN(b) THEN NaN ELSE Frac(a[1] * b[2] - b[1] * a[2], a[2] * b[2]) :
         a \in {x}, b \in {y}})

\* NaN * 0 is NaN
Mul(x, y) ==
    The({IF IsNaN(a) \/ IsNaN(b) THEN NaN ELSE Frac(a[1] * b[1], a[2] * b[2]) :
         a \in {x}, b \in {y}})

Div(x, y) ==
    The({IF IsNaN(a) \/ IsNaN(b) THEN NaN ELSE Frac(a[1] * b[2], a[2] * b[1]) :
         a \in {x}, b \in {y}})

\* every comparison with NaN is false
Le(x, y) ==
    \E a \in {x}, b \in {y} : ~IsNaN(a) /\ ~IsNaN(b) /\ a[1] * b[2] <= b[1] * a[2]

Lt(x, y) ==
    \E a \in {x}, b \in {y} : ~IsNaN(a) /\ ~IsNaN(b) /\ a[1] * b[2] < b[1] * a[2]

\* Math.min / Math.max: NaN if either argument is NaN
MathMin(x, y) ==
    The({IF IsNaN(a) \/ IsNaN(b) THEN NaN ELSE IF Le(a, b) THEN a ELSE b : a \in {x}, b \in {y}})

MathMax(x, y) ==
    The({IF IsNaN(a) \/ IsNaN(b) THEN NaN ELSE IF Le(a, b) THEN b ELSE a : a \in {x}, b \in {y}})

\* Math.floor
MathFloor(x) == The({IF IsNaN(a) THEN NaN ELSE Whole(a[1] \div a[2]) : a \in {x}})

----------------------------------------------------------------------------
(* Strings and params values *)

Digits == <<"0", "1", "2", "3", "4", "5", "6", "7", "8", "9">>

HexLower == <<"0", "1", "2", "3", "4", "5", "6", "7", "8", "9",
              "a", "b", "c", "d", "e", "f">>

HexUpper == <<"0", "1", "2", "3", "4", "5", "6", "7", "8", "9",
              "A", "B", "C", "D", "E", "F">>

HexChars == {HexLower[i] : i \in 1..16} \cup {HexUpper[i] : i \in 1..16}

\* parseInt(c, 16) of each hex digit, either case
HexTable == [c \in HexChars |-> CHOOSE i \in 0..15 : HexLower[i + 1] = c \/ HexUpper[i + 1] = c]

IsDigit(c) == \E i \in 1..10 : Digits[i] = c

DigitVal(c) == CHOOSE i \in 0..9 : Digits[i + 1] = c

\* [a-f\d] under the i flag
IsHexDigit(c) == c \in HexChars

HexVal(c) == HexTable[c]

Num(n) == [k |-> "num", n |-> n, s |-> <<>>]

Str(s) == [k |-> "str", n |-> 0, s |-> s]

RECURSIVE DigitsValue(_)
DigitsValue(s) ==
    IF s = <<>> THEN 0 ELSE 10 * DigitsValue(SubSeq(s, 1, Len(s) - 1)) + DigitVal(s[Len(s)])

AllDigits(s) == \A i \in 1..Len(s) : IsDigit(s[i])

DotAt(s) == IF \E i \in 1..Len(s) : s[i] = "."
            THEN CHOOSE i \in 1..Len(s) : s[i] = "." ELSE 0

\* Number(string) for the decimal strings a range input emits, in hundredths;
\* the empty string is 0, anything unparsable is NaN
StringToNumber(s) ==
    LET d == DotAt(s)
        ip == IF d = 0 THEN s ELSE SubSeq(s, 1, d - 1)
        fp == IF d = 0 THEN <<>> ELSE SubSeq(s, d + 1, Len(s))
    IN  IF s = <<>> THEN Whole(0)
        ELSE IF ~AllDigits(ip) \/ ~AllDigits(fp) \/ Len(fp) > 2 \/ (ip = <<>> /\ fp = <<>>)
        THEN NaN
        ELSE Frac(100 * DigitsValue(ip)
                    + (IF Len(fp) = 1 THEN 10 * DigitsValue(fp) ELSE DigitsValue(fp)),
                  100)

\* the numeric coercion the arithmetic and comparison operators apply
ToNumber(v) == IF v.k = "num" THEN Frac(v.n, 100) ELSE StringToNumber(v.s)

\* JS truthiness: 0 and "" are falsy
Truthy(v) == IF v.k = "num" THEN v.n # 0 ELSE v.s # <<>>

RECURSIVE NatToString(_)
NatToString(n) ==
    IF n < 10 THEN <<Digits[n + 1]>> ELSE NatToString(n \div 10) \o <<Digits[(n % 10) + 1]>>

\* String(number) of a non-negative number given in hundredths: 70 is "0.7"
NumberToString(n) ==
    LET ip == NatToString(n \div 100)
        f  == n % 100
    IN  IF f = 0 THEN ip
        ELSE IF f % 10 = 0 THEN ip \o <<".", Digits[(f \div 10) + 1]>>
        ELSE ip \o <<".", Digits[(f \div 10) + 1], Digits[(f % 10) + 1]>>

\* what a template literal interpolates for a params value
TemplateString(v) == IF v.k = "num" THEN NumberToString(v.n) ELSE v.s

----------------------------------------------------------------------------
(* Color functions, lines 53-89 *)

\* the weights exchanged
lerpSwapped(start, end, t) == Add(Mul(start, t), Mul(end, Sub(Whole(1), t)))

lerp(start, end, t) == Add(Mul(start, Sub(Whole(1), t)), Mul(end, t))

Null == [ok |-> FALSE, r |-> 0, g |-> 0, b |-> 0]

hexToRgb(hex) ==
    LET body == IF Len(hex) > 0 /\ hex[1] = "#" THEN Tail(hex) ELSE hex
    IN  IF Len(body) = 6 /\ \A i \in 1..6 : IsHexDigit(body[i])
        THEN [ok |-> TRUE,
              r |-> 16 * HexVal(body[1]) + HexVal(body[2]),
              g |-> 16 * HexVal(body[3]) + HexVal(body[4]),
              b |-> 16 * HexVal(body[5]) + HexVal(body[6])]
        ELSE Null

\* a color string: fn(r,g,b) or, with alpha, fn(r,g,b, alpha); a channel is a number
ColorString(fn, r, g, b, alpha) == [fn |-> fn, r |-> r, g |-> g, b |-> b, alpha |-> alpha]

\* reading a property of null throws
TypeError == ColorString("TypeError", NaN, NaN, NaN, "")

\* which branch of mapToColor a value takes (line 76)
FirstBranch(value) == Le(value, Frac(1, 2))

\* lines 78-81 and 84-87: the three channels interpolated from one color to the other
Interpolate(from, to, t) ==
    ColorString("rgb",
                MathFloor(lerp(Whole(from.r), Whole(to.r), t)),
                MathFloor(lerp(Whole(from.g), Whole(to.g), t)),
                MathFloor(lerp(Whole(from.b), Whole(to.b), t)), "")

mapToColor(value, startColor, midColor, endColor) ==
    The({IF FirstBranch(v)
         THEN IF ~start.ok \/ ~mid.ok THEN TypeError
              ELSE The({Interpolate(start, mid, t) : t \in {Mul(v, Whole(2))}})
         ELSE IF ~mid.ok \/ ~end.ok THEN TypeError
              ELSE The({Interpolate(mid, end, t) : t \in {Mul(Sub(v, Frac(1, 2)), Whole(2))}}) :
         v \in {value}, start \in {hexToRgb(startColor)}, mid \in {hexToRgb(midColor)},
         end \in {hexToRgb(endColor)}})

----------------------------------------------------------------------------
(* Gradient cache, lines 91-106 *)

\* the key without the y component
CacheKeyNoY(y, stripPosition, p) ==
    <<Whole(0), stripPosition, TemplateString(p.startColor), TemplateString(p.midColor),
      TemplateString(p.endColor), TemplateString(p.verticalBias)>>

\* line 92; String(number) is one-to-one on numbers, so y and stripPosition
\* stand for their own decimal strings
CacheKey(y, stripPosition, p) ==
    <<y, stripPosition, TemplateString(p.startColor), TemplateString(p.midColor),
      TemplateString(p.endColor), TemplateString(p.verticalBias)>>

\* color.replace('rgb', 'rgba').replace(')', ', 0.5)'), line 102
ToRgba(color) == [color EXCEPT !.fn = "rgba", !.alpha = "0.5"]

\* lines 98-102: the value getGradientColor computes on a cache miss
ComputeGradientColor(y, stripPosition, p) ==
    The({IF color = TypeError THEN TypeError ELSE ToRgba(color) :
         color \in {mapToColor(value, p.startColor.s, p.midColor.s, p.endColor.s) :
         value \in {MathMax(Whole(0), MathMin(Whole(1), biasedValue)) :
         biasedValue \in {lerp(baseValue, stripPosition, ToNumber(p.verticalBias)) :
         baseValue \in {y}}}}})

\* [val, hit, cache]: the value returned, whether it came from the cache, the
\* cache afterwards.  A stored value is a non-empty string, hence truthy.
getGradientColor(y, stripPosition, p, cache) ==
    The({IF \E e \in cache : e.key = key
         THEN [val |-> (CHOOSE e \in cache : e.key = key).val, hit |-> TRUE, cache |-> cache]
         ELSE The({[val   |-> rgbaColor,
                    hit   |-> FALSE,
                    cache |-> IF rgbaColor = TypeError THEN cache
                              ELSE cache \cup {[key |-> key, val |-> rgbaColor]}] :
                   rgbaColor \in {ComputeGradientColor(y, stripPosition, p)}}) :
         key \in {CacheKey(y, stripPosition, p)}})

----------------------------------------------------------------------------
(* Render pass: the body of the effect, lines 108-179.                      *)
(* A pass is a record [cache, log, stops, hits, misses, threw] threaded     *)
(* through the steps in source order; a step after an exception does        *)
(* nothing.  stops lists the calls of getGradientColor: the arguments, the  *)
(* value returned, whether it came from the cache, and (fresh) the value    *)
(* lines 98-102 compute from the current params for the same arguments.     *)

Op(op, i) == [op |-> op, i |-> i]

StartPass(cache) ==
    [cache |-> cache, log |-> <<>>, stops |-> <<>>, hits |-> 0, misses |-> 0, threw |-> FALSE]

\* lines 112-114
ClearCacheStep(p, st) ==
    IF Truthy(p.startColor) \/ Truthy(p.midColor) \/ Truthy(p.endColor) \/ Truthy(p.verticalBias)
    THEN [st EXCEPT !.cache = {}]
    ELSE st

\* lines 116-117: assigning width and height resizes and clears the canvas
ResizeStep(p, st) == [st EXCEPT !.log = Append(@, Op("resize", 0))]

\* lines 121-127
TextStep(p, st) ==
    IF st.threw \/ ~Truthy(p.text) THEN st
    ELSE [st EXCEPT !.log = Append(@, Op("fillText", 0))]

\* CanvasGradient.addColorStop throws a SyntaxError for a color string that
\* does not parse as a CSS color, which "rgba(NaN,NaN,NaN, 0.5)" does not
ParsesAsColor(color) == ~IsNaN(color.r) /\ ~IsNaN(color.g) /\ ~IsNaN(color.b)

\* lines 155-156: one gradient stop
AddStop(p, st, i, stripPosition, y) ==
    The({The({IF got.val = TypeError \/ ~ParsesAsColor(got.val)
              THEN [st1 EXCEPT !.threw = TRUE]
              ELSE [st1 EXCEPT !.log = Append(@, Op("addColorStop", i))] :
              st1 \in {[st EXCEPT !.cache  = got.cache,
                                 !.stops  = Append(@, [i |-> i, y |-> y,
                                                       stripPosition |-> stripPosition,
                                                       val |-> got.val, hit |-> got.hit,
                                                       fresh |-> ComputeGradientColor(y, stripPosition, p)]),
                                 !.hits   = IF got.hit THEN @ + 1 ELSE @,
                                 !.misses = IF got.hit THEN @ ELSE @ + 1]}}) :
         got \in {getGradientColor(y, stripPosition, p, st.cache)}})

\* line 154: for (let y = 0; y <= 1; y += 0.2).  In doubles the six values are
\* 0, 0.2, 0.4, 0.6000000000000001, 0.8, 1; exact fifths take the same six turns.
RECURSIVE StopLoop(_, _, _, _, _)
StopLoop(p, st, i, stripPosition, y) ==
    IF st.threw \/ ~Le(y, Whole(1)) THEN st
    ELSE The({StopLoop(p, st1, i, stripPosition, y1) :
              st1 \in {AddStop(p, st, i, stripPosition, y)}, y1 \in {Add(y, Frac(1, 5))}})

\* lines 130-160: one strip
DrawStrip(p, st, i) ==
    The({IF st2.threw THEN st2 ELSE [st2 EXCEPT !.log = Append(@, Op("fill", i))] :
         st2 \in {StopLoop(p, st1, i, stripPosition, Whole(0)) :
         st1 \in {[st EXCEPT !.log = Append(@, Op("path", i))]},
         stripPosition \in {Div(Whole(i), Sub(ToNumber(p.strips), Whole(1)))}}})

\* line 129
RECURSIVE StripLoop(_, _, _)
StripLoop(p, st, i) ==
    IF st.threw \/ ~Lt(Whole(i), ToNumber(p.strips)) THEN st
    ELSE The({StripLoop(p, st1, i + 1) : st1 \in {DrawStrip(p, st, i)}})

StripsStep(p, st) == StripLoop(p, st, 0)

\* lines 163-179; what it does to the pixels is NoisePass below
NoiseStep(p, st) ==
    IF st.threw \/ ~Lt(Whole(0), ToNumber(p.noiseScale)) THEN st
    ELSE [st EXCEPT !.log = Append(@, Op("noise", 0))]

\* the strips drawn before the text
RunPassTextLast(p, cache) ==
    The({NoiseStep(p, st4) : st4 \in
        {TextStep(p, st3) : st3 \in
        {StripsStep(p, st2) : st2 \in
        {ResizeStep(p, st1) : st1 \in
        {ClearCacheStep(p, st0) : st0 \in {StartPass(cache)}}}}}})

\* lines 109-179 in source order
RunPass(p, cache) ==
    The({NoiseStep(p, st4) : st4 \in
        {StripsStep(p, st3) : st3 \in
        {TextStep(p, st2) : st2 \in
        {ResizeStep(p, st1) : st1 \in
        {ClearCacheStep(p, st0) : st0 \in {StartPass(cache)}}}}}})

----------------------------------------------------------------------------
(* The component: state, controls, scheduling *)

MaxEvents == 3

Fields == {"strips", "startColor", "midColor", "endColor", "noiseScale", "verticalBias",
           "text", "fontSize", "textColor", "waveAmplitude", "waveFrequency", "waveOffset"}

\* two of the draws generateRandomPastelColor can make for the start, mid and
\* end color (lines 4-17: channels 128..229, lower-case hex)
PastelColors ==
    <<  <<  <<"#", "8", "0", "a", "0", "c", "0">>,
            <<"#", "e", "5", "9", "0", "b", "4">>,
            <<"#", "9", "9", "d", "2", "8", "1">>  >>,
        <<  <<"#", "c", "c", "c", "c", "c", "c">>,
            <<"#", "c", "c", "c", "c", "c", "c">>,
            <<"#", "8", "0", "8", "0", "e", "5">>  >>  >>

\* lines 20-33
InitialParams(c1, c2, c3) ==
    [strips        |-> Num(1000),
     startColor    |-> Str(c1),
     midColor      |-> Str(c2),
     endColor      |-> Str(c3),
     noiseScale    |-> Num(2),
     verticalBias  |-> Num(70),
     text          |-> Str(<<>>),
     fontSize      |-> Num(4800),
     textColor     |-> Str(<<"#", "f", "f", "f", "f", "f", "f">>),
     waveAmplitude |-> Num(3000),
     waveFrequency |-> Num(200),
     waveOffset    |-> Num(50)]

\* e.target.value of each control (lines 193-334): always a string, within
\* the control's min, max and step; the values tried here
Emits(name) ==
    CASE name = "strips"        -> {Str(<<"1">>), Str(<<"2">>)}
      [] name = "startColor"    -> {Str(<<"#", "8", "0", "8", "0", "8", "0">>)}
      [] name = "midColor"      -> {}
      [] name = "endColor"      -> {Str(<<"#", "f", "f", "f", "f", "f", "f">>)}
      [] name = "noiseScale"    -> {Str(<<"0">>)}
      [] name = "verticalBias"  -> {Str(<<"0">>)}
      [] name = "text"          -> {Str(<<"a">>)}
      [] name = "fontSize"      -> {}
      [] name = "textColor"     -> {}
      [] name = "waveAmplitude" -> {}
      [] name = "waveFrequency" -> {}
      [] name = "waveOffset"    -> {Str(<<"2">>)}

\* every field but the named one reset to a fixed object
SetFieldReset(prev, name, value) ==
    [f \in Fields |-> IF f = name THEN value ELSE Str(<<>>)]

\* the updater of line 46: ({...prev, [name]: value})
SetField(prev, name, value) == [prev EXCEPT ![name] = value]

\* cancelAnimationFrame(id): an id that is not pending is ignored
CancelAnimationFrame(fs, id) == {f \in fs : f.id # id}

\* requestAnimationFrame(callback) returning id
RequestAnimationFrame(fs, id, name, value) ==
    fs \cup {[id |-> id, name |-> name, value |-> value]}

\* the pending callbacks in the order the browser runs them
RECURSIVE InOrder(_)
InOrder(fs) ==
    IF fs = {} THEN <<>>
    ELSE LET f == CHOOSE x \in fs : \A o \in fs : x.id <= o.id
         IN  <<f>> \o InOrder(fs \ {f})

RECURSIVE RunCallbacks(_, _)
RunCallbacks(p, cbs) ==
    IF cbs = <<>> THEN p
    ELSE RunCallbacks(SetField(p, cbs[1].name, cbs[1].value), Tail(cbs))

Ids(cbs) == [i \in 1..Len(cbs) |-> cbs[i].id]

\* the params objects the controls above can produce from an initial object
ParamObjectsFrom(init) ==
    [strips        : {init.strips} \cup Emits("strips"),
     startColor    : {init.startColor} \cup Emits("startColor"),
     midColor      : {init.midColor} \cup Emits("midColor"),
     endColor      : {init.endColor} \cup Emits("endColor"),
     noiseScale    : {init.noiseScale} \cup Emits("noiseScale"),
     verticalBias  : {init.verticalBias} \cup Emits("verticalBias"),
     text          : {init.text} \cup Emits("text"),
     fontSize      : {init.fontSize} \cup Emits("fontSize"),
     textColor     : {init.textColor} \cup Emits("textColor"),
     waveAmplitude : {init.waveAmplitude} \cup Emits("waveAmplitude"),
     waveFrequency : {init.waveFrequency} \cup Emits("waveFrequency"),
     waveOffset    : {init.waveOffset} \cup Emits("waveOffset")]

InitialObjects ==
    {InitialParams(PastelColors[c][1], PastelColors[c][2], PastelColors[c][3]) :
        c \in DOMAIN PastelColors}

ParamObjects == UNION {ParamObjectsFrom(init) : init \in InitialObjects}

\* RunPass from an empty cache, computed once for each of these objects
PassTable == {[p |-> p, pass |-> RunPass(p, {})] : p \in ParamObjects}

\* The body of the effect: RunPass(p, cache).  A pass that starts from an empty
\* cache, or empties it first (lines 112-114), is read from PassTable.
RenderPass(p, cache) ==
    IF ClearCacheStep(p, StartPass(cache)).cache = {} /\ p \in ParamObjects
    THEN (CHOOSE e \in PassTable : e.p = p).pass
    ELSE RunPass(p, cache)

purePart == <<mcIn, mcOut, raster, noiseIn>>

\* the component mounted, its first effect not yet run
AppInit ==
    /\ params \in InitialObjects
    /\ committed = params
    /\ needsRender = FALSE
    /\ effectPending = TRUE
    /\ hasCleanup = FALSE
    /\ crashed = FALSE
    /\ animationFrameRef = 0
    /\ frames = {}
    /\ nextFrameId = 1
    /\ gradientCache = {}
    /\ drawLog = <<>>
    /\ stops = <<>>
    /\ hits = 0
    /\ misses = 0
    /\ quantum = <<>>
    /\ ran = <<>>

NoCall == [value |-> NaN, startColor |-> <<>>, midColor |-> <<>>, endColor |-> <<>>]

NotCalled == ColorString("", NaN, NaN, NaN, "")

ColorIdle ==
    /\ mcIn = NoCall
    /\ mcOut = NotCalled

NoiseIdle ==
    /\ raster = [before |-> <<>>, put |-> <<>>, after |-> <<>>]
    /\ noiseIn = [ran |-> FALSE, noiseScale |-> Num(0), rnd |-> <<>>, blur |-> ""]

Init == AppInit /\ ColorIdle /\ NoiseIdle

\* lines 39-51: an onChange event of the control called name
handleParamChange(name, value) ==
    /\ ~crashed
    /\ nextFrameId <= MaxEvents
    /\ frames' = RequestAnimationFrame(
                    IF animationFrameRef # 0
                    THEN CancelAnimationFrame(frames, animationFrameRef) ELSE frames,
                    nextFrameId, name, value)
    /\ animationFrameRef' = nextFrameId
    /\ nextFrameId' = nextFrameId + 1
    /\ quantum' = Append(quantum, [id |-> nextFrameId, name |-> name, value |-> value])
    /\ UNCHANGED <<params, committed, needsRender, effectPending, hasCleanup, crashed,
                   gradientCache, drawLog, stops, hits, misses, ran>>
    /\ UNCHANGED purePart

\* a display-frame tick: the browser runs the pending callbacks (lines 45-50),
\* each calling setParams with its updater
FrameTick ==
    /\ ~crashed
    /\ frames # {} \/ quantum # <<>>
    /\ params' = RunCallbacks(params, InOrder(frames))
    /\ ran' = Ids(InOrder(frames))
    /\ frames' = {}
    /\ quantum' = <<>>
    /\ needsRender' = (needsRender \/ frames # {})
    /\ UNCHANGED <<committed, effectPending, hasCleanup, crashed, animationFrameRef,
                   nextFrameId, gradientCache, drawLog, stops, hits, misses>>
    /\ UNCHANGED purePart

\* React re-renders App with the new state and commits; the effect of the
\* previous commit has always run by then
ReactRender ==
    /\ ~crashed
    /\ needsRender
    /\ ~effectPending
    /\ committed' = params
    /\ needsRender' = FALSE
    /\ effectPending' = TRUE
    /\ UNCHANGED <<params, hasCleanup, crashed, animationFrameRef, frames, nextFrameId,
                   gradientCache, drawLog, stops, hits, misses, quantum, ran>>
    /\ UNCHANGED purePart

\* React runs the passive effect of the committed render (lines 108-186): the
\* previous run's cleanup (lines 181-185), then the body
FlushPassiveEffects ==
    /\ ~crashed
    /\ effectPending
    /\ \E pass \in {RenderPass(committed, gradientCache)} :
           /\ gradientCache' = pass.cache
           /\ drawLog' = pass.log
           /\ stops' = pass.stops
           /\ hits' = pass.hits
           /\ misses' = pass.misses
           /\ crashed' = pass.threw
    /\ frames' = IF hasCleanup /\ animationFrameRef # 0
                 THEN CancelAnimationFrame(frames, animationFrameRef) ELSE frames
    /\ hasCleanup' = TRUE
    /\ effectPending' = FALSE
    /\ UNCHANGED <<params, committed, needsRender, animationFrameRef, nextFrameId,
                   quantum, ran>>
    /\ UNCHANGED purePart

Next ==
    \/ \E name \in Fields : \E value \in Emits(name) : handleParamChange(name, value)
    \/ FrameTick
    \/ ReactRender
    \/ FlushPassiveEffects

Spec == Init /\ [][Next]_vars

----------------------------------------------------------------------------
(* Noise pass over the pixels, lines 163-179.  data is the Uint8ClampedArray *)
(* of getImageData: four channels R, G, B, A per pixel; data[i] of the       *)
(* source is data[i + 1] here.                                               *)

\* storing a number into a Uint8ClampedArray: clamp, round to nearest, ties to even
ToUint8Clamp(x) ==
    IF IsNaN(x) THEN 0
    ELSE LET c == MathMax(Whole(0), MathMin(Whole(255), x))
             f == c[1] \div c[2]
             twice == Sub(Mul(c, Whole(2)), Whole(2 * f))
         IN  IF Lt(Whole(1), twice) THEN f + 1
             ELSE IF Lt(twice, Whole(1)) THEN f
             ELSE IF f % 2 = 0 THEN f ELSE f + 1

\* lines 170-172 with the alpha channel written as well
PerturbPixelAlpha(data, i, noise) ==
    [data EXCEPT
        ![i + 1] = ToUint8Clamp(MathMax(Whole(0), MathMin(Whole(255), Add(Whole(data[i + 1]), noise)))),
        ![i + 2] = ToUint8Clamp(MathMax(Whole(0), MathMin(Whole(255), Add(Whole(data[i + 2]), noise)))),
        ![i + 3] = ToUint8Clamp(MathMax(Whole(0), MathMin(Whole(255), Add(Whole(data[i + 3]), noise)))),
        ![i + 4] = ToUint8Clamp(MathMax(Whole(0), MathMin(Whole(255), Add(Whole(data[i + 4]), noise))))]

\* lines 170-172
PerturbPixel(data, i, noise) ==
    [data EXCEPT
        ![i + 1] = ToUint8Clamp(MathMax(Whole(0), MathMin(Whole(255), Add(Whole(data[i + 1]), noise)))),
        ![i + 2] = ToUint8Clamp(MathMax(Whole(0), MathMin(Whole(255), Add(Whole(data[i + 2]), noise)))),
        ![i + 3] = ToUint8Clamp(MathMax(Whole(0), MathMin(Whole(255), Add(Whole(data[i + 3]), noise))))]

\* line 168, random being the value of Math.random()
Noise(random, noiseScale) ==
    Mul(Mul(Sub(random, Frac(1, 2)), ToNumber(noiseScale)), Whole(3))

\* lines 167-173; rnd[j] is the j-th value Math.random() returns
RECURSIVE NoiseLoop(_, _, _, _, _)
NoiseLoop(data, noiseScale, rnd, i, j) ==
    IF ~(i < Len(data)) THEN data
    ELSE NoiseLoop(PerturbPixel(data, i, Noise(rnd[j], noiseScale)), noiseScale, rnd, i + 16, j + 1)

RoundDiv(n, d) == (2 * n + d) \div (2 * d)

\* The canvas as premultiplied pixels <<r, g, b, a>>, pixel q holding
\* data[4q+1 .. 4q+4].
Premultiplied(data) ==
    [q \in 1..(Len(data) \div 4) |->
        LET a == data[4 * q] IN
        <<RoundDiv(data[4 * q - 3] * a, 255), RoundDiv(data[4 * q - 2] * a, 255),
          RoundDiv(data[4 * q - 1] * a, 255), a>>]

Unpremultiplied(px) ==
    [i \in 1..(4 * Len(px)) |->
        LET q == ((i - 1) \div 4) + 1
            c == ((i - 1) % 4) + 1
            a == px[q][4]
        IN  IF c = 4 THEN a ELSE IF a = 0 THEN 0 ELSE RoundDiv(px[q][c] * 255, a)]

\* What the blur filter of line 176 makes of the source image, one row of
\* pixels: "none" when the radius is below what the filter resolves, "box"
\* when each pixel is averaged with its neighbours (transparent past the edge).
Blurred(px, kind) ==
    IF kind = "none" THEN px
    ELSE [q \in 1..Len(px) |->
            [c \in 1..4 |->
                RoundDiv((IF q > 1 THEN px[q - 1][c] ELSE 0) + 2 * px[q][c]
                            + (IF q < Len(px) THEN px[q + 1][c] ELSE 0), 4)]]

\* source-over compositing of src onto dst, the default globalCompositeOperation
SourceOver(src, dst) ==
    [q \in 1..Len(dst) |->
        [c \in 1..4 |-> src[q][c] + RoundDiv(dst[q][c] * (255 - src[q][4]), 255)]]

\* lines 176-178: the canvas drawn onto itself through the blur filter
DrawImageBlurred(data, kind) ==
    LET px == Premultiplied(data)
    IN  Unpremultiplied(SourceOver(Blurred(px, kind), px))

\* lines 163-179: [put, after], the data given to putImageData and the pixels
\* after drawImage; without the pass both are the pixels as they were
NoisePass(data, noiseScale, rnd, kind) ==
    IF Lt(Whole(0), ToNumber(noiseScale))
    THEN LET put == NoiseLoop(data, noiseScale, rnd, 0, 1)
         IN  [put |-> put, after |-> DrawImageBlurred(put, kind)]
    ELSE [put |-> data, after |-> data]

NumPixels == 5

RandSteps == 3

\* values of Math.random(), which lies in [0, 1)
Randoms == {Frac(k, RandSteps) : k \in 0..(RandSteps - 1)}

\* transparent, half transparent (a strip filled at alpha 0.5), opaque
PixelValues == {<<0, 0, 0, 0>>, <<200, 100, 0, 128>>, <<255, 254, 1, 255>>}

Rasters ==
    {[i \in 1..(4 * NumPixels) |-> f[((i - 1) \div 4) + 1][((i - 1) % 4) + 1]] :
        f \in [1..NumPixels -> PixelValues]}

\* the initial noiseScale (line 25) and values of the Frost Effect slider
NoiseScales == {Num(2), Str(<<"0">>), Str(<<"1">>), Str(<<"2", "0">>)}

\* one Math.random() value for each pixel the loop visits
RandomDraws == [1..(((4 * NumPixels - 1) \div 16) + 1) -> Randoms]

OneApp ==
    /\ AppInit
    /\ params = InitialParams(PastelColors[1][1], PastelColors[1][2], PastelColors[1][3])

InitNoise ==
    /\ OneApp
    /\ ColorIdle
    /\ \E data \in Rasters : raster = [before |-> data, put |-> data, after |-> data]
    /\ \E scale \in NoiseScales, rnd \in RandomDraws, kind \in {"none", "box"} :
          noiseIn = [ran |-> FALSE, noiseScale |-> scale, rnd |-> rnd, blur |-> kind]

RunNoisePass ==
    /\ ~noiseIn.ran
    /\ \E out \in {NoisePass(raster.before, noiseIn.noiseScale, noiseIn.rnd, noiseIn.blur)} :
          raster' = [raster EXCEPT !.put = out.put, !.after = out.after]
    /\ noiseIn' = [noiseIn EXCEPT !.ran = TRUE]
    /\ UNCHANGED appVars
    /\ UNCHANGED <<mcIn, mcOut>>

NextNoise == RunNoisePass

SpecNoise == InitNoise /\ [][NextNoise]_vars

----------------------------------------------------------------------------
(* mapToColor and hexToRgb on their own: every call with a value and three  *)
(* color strings from the sets below.                                       *)

HalfSteps == 2

\* 0, ..., 1/2, ..., 1 in steps of 1/(2 * HalfSteps)
MapValues == {Frac(k, 2 * HalfSteps) : k \in 0..(2 * HalfSteps)}

\* well-formed colors, each with the channels it denotes
KnownColors ==
    {[hex |-> <<"#", "0", "0", "0", "0", "0", "0">>, r |-> 0, g |-> 0, b |-> 0],
     [hex |-> <<"#", "f", "f", "f", "f", "f", "f">>, r |-> 255, g |-> 255, b |-> 255],
     [hex |-> <<"#", "8", "0", "A", "0", "c", "1">>, r |-> 128, g |-> 160, b |-> 193],
     [hex |-> <<"1", "2", "3", "4", "5", "6">>, r |-> 18, g |-> 52, b |-> 86]}

WellFormedColors == {k.hex : k \in KnownColors}

MalformedColors ==
    {<<>>,
     <<"#", "f", "f", "f">>,
     <<"#", "1", "2", "3", "4", "5", "g">>,
     <<"#", "1", "2", "3", "4", "5", "6", "7">>,
     <<"r", "e", "d">>}

ColorInputs == WellFormedColors \cup MalformedColors

InitColor ==
    /\ OneApp
    /\ NoiseIdle
    /\ mcIn \in [value : MapValues, startColor : ColorInputs,
                 midColor : ColorInputs, endColor : ColorInputs]
    /\ mcOut = NotCalled

CallMapToColor ==
    /\ mcOut = NotCalled
    /\ mcOut' = mapToColor(mcIn.value, mcIn.startColor, mcIn.midColor, mcIn.endColor)
    /\ UNCHANGED mcIn
    /\ UNCHANGED appVars
    /\ UNCHANGED <<raster, noiseIn>>

NextColor == CallMapToColor

SpecColor == InitColor /\ [][NextColor]_vars

\* the color string mapToColor returns for the channels of a known color
RgbOf(hex) ==
    LET k == CHOOSE c \in KnownColors : c.hex = hex
    IN  ColorString("rgb", Whole(k.r), Whole(k.g), Whole(k.b), "")

AllWellFormed ==
    /\ mcIn.startColor \in WellFormedColors
    /\ mcIn.midColor \in WellFormedColors
    /\ mcIn.endColor \in WellFormedColors

\* C4: for well-formed start, mid and end colors, mapToColor(0) is the start
\* color, mapToColor(1) the end color and mapToColor(0.5) the mid color, 0.5
\* taking the first (start-to-mid) branch.
C4_MapToColorEndpoints ==
    (mcOut # NotCalled /\ AllWellFormed) =>
        /\ mcIn.value = Whole(0) => mcOut = RgbOf(mcIn.startColor)
        /\ mcIn.value = Whole(1) => mcOut = RgbOf(mcIn.endColor)
        /\ mcIn.value = Frac(1, 2) => (FirstBranch(mcIn.value) /\ mcOut = RgbOf(mcIn.midColor))

C4_Witness ==
    /\ mcOut # NotCalled
    /\ AllWellFormed
    /\ mcIn.value = Frac(1, 2)
    /\ RgbOf(mcIn.startColor) # RgbOf(mcIn.midColor)
    /\ RgbOf(mcIn.midColor) # RgbOf(mcIn.endColor)
    /\ mcOut = RgbOf(mcIn.midColor)

\* C7: hexToRgb returns null for every malformed color, and mapToColor called
\* with a malformed start, mid or end color returns a value instead of
\* throwing.
C7_MalformedIsDefinedFailure ==
    /\ \A c \in {mcIn.startColor, mcIn.midColor, mcIn.endColor} :
          c \in MalformedColors => hexToRgb(c) = Null
    /\ (mcOut # NotCalled /\ ~AllWellFormed) => mcOut # TypeError

----------------------------------------------------------------------------
(* The noise pass *)

\* data index i (from 1) is the red, green or blue channel of a pixel the loop
\* of line 167 visits: source index i - 1 lies in 16k .. 16k + 2
StrideColorChannel(i) == ((i - 1) % 16) < 3

OnlyStrideColorsDiffer(old, new) ==
    /\ Len(new) = Len(old)
    /\ \A i \in 1..Len(old) :
          /\ new[i] \in 0..255
          /\ new[i] # old[i] => StrideColorChannel(i)

\* C5 as stated: with noiseScale 0 the raster after the post-processor equals
\* the raster before it; with noiseScale > 0 only the R, G, B channels of every
\* 4th pixel can differ, each within 0..255, and no alpha channel and no other
\* pixel is modified.
C5_PostProcessorFrame ==
    noiseIn.ran =>
        IF Lt(Whole(0), ToNumber(noiseIn.noiseScale))
        THEN OnlyStrideColorsDiffer(raster.before, raster.after)
        ELSE raster.after = raster.before

\* C5 amended: the frame holds of the data the loop writes back with
\* putImageData (and of the whole pass when noiseScale is 0); the blur redraw
\* that follows is not covered.
C5_NoiseLoopFrame ==
    noiseIn.ran =>
        IF Lt(Whole(0), ToNumber(noiseIn.noiseScale))
        THEN OnlyStrideColorsDiffer(raster.before, raster.put)
        ELSE raster.put = raster.before /\ raster.after = raster.before

C5_Witness ==
    /\ noiseIn.ran
    /\ Lt(Whole(0), ToNumber(noiseIn.noiseScale))
    /\ raster.put[1] # raster.before[1]
    /\ raster.put[18] # raster.before[18]
    /\ raster.before[5] # 0

----------------------------------------------------------------------------
(* The component *)

\* the last render pass ran for the committed params
PassDone == hasCleanup /\ ~effectPending

\* a display-frame tick that follows at least one event
TickStep == quantum # <<>> /\ quantum' = <<>>

\* C1: when two or more events were issued since the last tick, the tick runs
\* exactly one update, that of the most recent event, and no earlier event of
\* the quantum is left to be applied.
C1_Coalescing ==
    /\ [][(TickStep /\ Len(quantum) >= 2) =>
            LET last == quantum[Len(quantum)]
            IN  /\ ran' = <<last.id>>
                /\ params' = [params EXCEPT ![last.name] = last.value]]_vars
    /\ [](\A f \in frames : f.id = animationFrameRef)

\* C9: the cleanup of the effect (a step that runs the pending effect) never
\* cancels a scheduled update, so the last event issued stays scheduled until
\* its tick applies it.
C9_NoLostUpdate ==
    [][(effectPending /\ ~effectPending') => frames' = frames]_vars

\* C6: params changes only when a tick runs a pending callback, and then
\* exactly the named field takes the event's value and every other field keeps
\* the value of the params current at that moment; cancelling an event changes
\* nothing in params.
C6_FieldReplacement ==
    [][/\ ~TickStep => params' = params
       /\ TickStep =>
            \/ frames = {} /\ params' = params
            \/ \E f \in frames :
                  /\ frames = {f}
                  /\ ran' = <<f.id>>
                  /\ \A name \in Fields :
                        params'[name] = IF name = f.name THEN f.value ELSE params[name]]_vars

C6_Witness ==
    /\ ran = <<2>>
    /\ params.text = Str(<<"a">>)
    /\ params.strips = Str(<<"2">>)
    /\ params.waveOffset = Num(50)

\* C2: every value getGradientColor returned in a render pass is the value
\* computed from the current startColor, midColor, endColor and verticalBias,
\* and once a pass has run the cache holds no entry made under other values
\* of these fields.
C2_NoStaleEntry ==
    /\ \A k \in 1..Len(stops) : stops[k].val = stops[k].fresh
    /\ PassDone =>
          \A e \in gradientCache :
              /\ e.key[3] = TemplateString(committed.startColor)
              /\ e.key[4] = TemplateString(committed.midColor)
              /\ e.key[5] = TemplateString(committed.endColor)
              /\ e.key[6] = TemplateString(committed.verticalBias)

C2_Witness ==
    /\ PassDone
    /\ Len(stops) = 12
    /\ committed.startColor = Str(<<"#", "8", "0", "8", "0", "8", "0">>)
    /\ Cardinality(gradientCache) = 12
    /\ stops[1].val = ColorString("rgba", Whole(128), Whole(128), Whole(128), "0.5")

\* C3: with strips = 1 the pass computes stripPosition 0 for strip 0, and no
\* NaN reaches the cache key, the biased value or the color of a gradient stop.
C3_StripPositionDefined ==
    (PassDone /\ ToNumber(committed.strips) = Whole(1)) =>
        /\ stops # <<>>
        /\ \A k \in 1..Len(stops) :
              /\ stops[k].stripPosition = Whole(0)
              /\ ParsesAsColor(stops[k].val)
        /\ \A e \in gradientCache : ~IsNaN(e.key[2])

\* C10: a pass starts from an emptied cache, no lookup in it is a cache hit,
\* and it performs exactly 6 * strips fresh computations.
C10_NoCacheHit ==
    /\ hits = 0
    /\ PassDone =>
          /\ misses = 6 * ToNumber(committed.strips)[1]
          /\ Cardinality(gradientCache) = misses

\* the positions of an operation in the log of a pass
Positions(log, op) == {k \in 1..Len(log) : log[k].op = op}

\* C8: in the log of a render pass the resize comes first, the text (drawn
\* exactly when text is non-empty) comes before every strip, the strips are
\* filled in ascending order from 0, and the noise pass (run only when
\* noiseScale > 0) comes after the last of the strips has been filled.
C8_DrawingOrder ==
    PassDone =>
        LET fills == Positions(drawLog, "fill")
            texts == Positions(drawLog, "fillText")
            noises == Positions(drawLog, "noise")
            strips == ToNumber(committed.strips)[1]
        IN  /\ Positions(drawLog, "resize") = {1}
            /\ texts = (IF Truthy(committed.text) THEN {2} ELSE {})
            /\ \A k \in fills \cup Positions(drawLog, "path") : \A x \in texts : x < k
            /\ \A k \in fills : drawLog[k].i = Cardinality({j \in fills : j < k})
            /\ Cardinality(fills) <= strips
            /\ ~crashed => Cardinality(fills) = strips
            /\ noises # {} =>
                  /\ noises = {Len(drawLog)}
                  /\ Lt(Whole(0), ToNumber(committed.noiseScale))
                  /\ Cardinality(fills) = strips
            /\ (~crashed /\ Lt(Whole(0), ToNumber(committed.noiseScale))) => noises # {}

C8_Witness ==
    /\ PassDone
    /\ ~crashed
    /\ Truthy(committed.text)
    /\ ToNumber(committed.strips) = Whole(2)
    /\ drawLog[2].op = "fillText"
    /\ drawLog[Len(drawLog)].op = "noise"

====
